---- MODULE Spec2Model ----
(***************************************************************************)
(* A model of smol (src/smol/core.py): Step, State, the outcome            *)
(* constructors success / failure / skip, and the runner Spec.run_all.     *)
(*                                                                         *)
(* Spec      the life of one Spec object: construction (directly or by the *)
(*           spec decorator), then one run_all, one loop iteration per     *)
(*           step of the model.                                            *)
(* SpecCtor  the pure constructors State(...), success(...), failure(...)  *)
(*           applied to arguments drawn from bounded sets.                 *)
(* SpecUnpack  toolz.unpack applied to ordered mappings and keys.          *)
(* SpecTitle  the step decorator applied to named functions and to titles. *)
(***************************************************************************)
EXTENDS Integers, Sequences, FiniteSets, TLC

VARIABLES
    spec,       \* the Spec object, NoSpec before (or without) construction
    ctor_arg,   \* the value given as steps= to the constructor
    pc,         \* "new", "built", "ctor_error", "running", "returned", "raised"
    init_data,  \* run_all's **init_data
    result,     \* run_all's local list of Results
    state,      \* run_all's local variable state
    rest,       \* the steps run_all's for loop has not reached yet
    raised,     \* the exception class that left the constructor or run_all
    calls,      \* history: every invocation of a step callable, in order
    ctor_call,  \* the call of a pure function made last (SpecCtor,
                \* SpecUnpack, SpecTitle)
    ctor_out    \* what that call returned or raised

vars == <<spec, ctor_arg, pc, init_data, result, state, rest, raised,
          calls, ctor_call, ctor_out>>

runVars == <<spec, ctor_arg, pc, init_data, result, state, rest,
             raised, calls>>

ctorVars == <<ctor_call, ctor_out>>

(***************************************************************************)
(* Bounds.                                                                 *)
(***************************************************************************)
\* the longest steps tuple
MaxSteps == 3
\* data values are 0..MaxVal
MaxVal == 2

(***************************************************************************)
(* Python values.                                                          *)
(***************************************************************************)
PyNone == [type |-> "NoneType"]

\* a str, held as the sequence of the fragments it is concatenated from
PyStr(s) == [type |-> "str", s |-> s]

PyInt(n) == [type |-> "int", n |-> n]

IsStr(v) == v.type = "str"

IsNone(v) == v.type = "NoneType"

Vals == 0..MaxVal

\* the keyword names a data mapping may hold
Keys == {"result", "step"}

\* the empty dict
EmptyData == [k \in {} |-> 0]

\* the dicts of the model: any value under "result", 0 under "step"
DataSet ==
    {d \in UNION {[K -> Vals] : K \in SUBSET Keys} :
        "step" \in DOMAIN d => d["step"] = 0}

\* a value that is not a dict
NotADict == [type |-> "list"]

IsDict(v) == v \in DataSet

\* the classes derived from Exception, and the ones derived from
\* BaseException only
ExceptionClasses == {"ValueError", "KeyError", "TypeError", "AttributeError"}

BaseOnlyClasses == {"KeyboardInterrupt"}

Return(v) == [kind |-> "return", value |-> v]

Raise(e) == [kind |-> "raise", exc |-> e]

(***************************************************************************)
(* State (core.py 54-83) and its validators.                               *)
(***************************************************************************)
\* State(data=..., break_execution=..., skipped=..., msg=...): attrs runs
\* the validators and raises TypeError when one fails
StateInit(data, break_execution, skipped, msg) ==
    IF /\ IsDict(data)
       /\ break_execution \in BOOLEAN
       /\ skipped \in BOOLEAN
       /\ (IsNone(msg) \/ IsStr(msg))
    THEN Return([data |-> data, break_execution |-> break_execution,
                 skipped |-> skipped, msg |-> msg])
    ELSE Raise("TypeError")

IsState(v) == DOMAIN v = {"data", "break_execution", "skipped", "msg"}

is_failure_no_skip_test(s) == s.break_execution

is_failure(s) == s.break_execution /\ ~s.skipped

is_success(s) == ~s.break_execution /\ ~s.skipped

is_skipped(s) == s.skipped

(***************************************************************************)
(* The outcome constructors (core.py 86-115).                              *)
(***************************************************************************)
\* success(**kwargs)
success(kwargs) == StateInit(kwargs, FALSE, FALSE, PyNone)

failure_without_break(msg) == StateInit(EmptyData, FALSE, FALSE, msg)

\* failure(msg): data is left to its factory, dict()
failure(msg) == StateInit(EmptyData, TRUE, FALSE, msg)

SkipMsgIsReason(reason) == reason

\* the message of the lambda skip() builds
SkipMsg(reason) ==
    IF IsNone(reason) THEN PyStr(<<"Step skipped.">>) ELSE reason

\* skip(step, reason): attr.evolve(step, func=lambda: State(...))
skip(step, reason) ==
    [func |-> [name |-> "<lambda>", reason |-> reason],
     title |-> step.title, description |-> step.description]

(***************************************************************************)
(* Step (core.py 6-19) and the step callables.                             *)
(***************************************************************************)
\* str(n) for the small numbers of the model
ToStr(n) ==
    CASE n = 0 -> "0" [] n = 1 -> "1" [] n = 2 -> "2" [] n = 3 -> "3"
      [] n = 4 -> "4" [] OTHER -> "n"

\* examples/ops.py add(1), its sum kept within Vals
add(kwargs) ==
    IF "result" \notin DOMAIN kwargs
    THEN Raise("KeyError")
    ELSE success([k \in {"result"} |-> (kwargs["result"] + 1) % (MaxVal + 1)])

\* examples/ops.py result_is(1)
result_is(kwargs) ==
    IF "result" \notin DOMAIN kwargs
    THEN Raise("KeyError")
    ELSE IF kwargs["result"] = 1
         THEN success([k \in {"result"} |-> kwargs["result"]])
         ELSE failure(PyStr(<<"Given result ", ToStr(kwargs["result"]),
                              " is not equal to ", ToStr(1), ".">>))

\* the callables a caller may wrap in a Step: the two examples, and seven
\* that do what a caller's function may do
FuncNames ==
    {"add", "result_is", "raises", "aborts", "returns_none",
     "returns_skipped", "returns_both", "returns_step_key", "mutates_kwargs"}

skip_lambda_ignores_arguments(reason, kwargs) ==
    StateInit(EmptyData, FALSE, TRUE, SkipMsg(reason))

\* the body of the lambda skip() builds: it takes no argument at all
skip_lambda(reason, kwargs) ==
    IF kwargs # EmptyData
    THEN Raise("TypeError")
    ELSE StateInit(EmptyData, FALSE, TRUE, SkipMsg(reason))

\* func(**kwargs): what the callable returns or raises
Invoke(func, kwargs) ==
    CASE func.name = "<lambda>" -> skip_lambda(func.reason, kwargs)
      [] func.name = "add" -> add(kwargs)
      [] func.name = "result_is" -> result_is(kwargs)
      [] func.name = "raises" -> Raise("ValueError")
      [] func.name = "aborts" -> Raise("KeyboardInterrupt")
      [] func.name = "returns_none" -> Return(PyNone)
      [] func.name = "returns_skipped" ->
            StateInit(EmptyData, FALSE, TRUE, PyStr(<<"Not today.">>))
      [] func.name = "returns_both" ->
            StateInit(EmptyData, TRUE, TRUE, PyNone)
      [] func.name = "returns_step_key" ->
            success([k \in DOMAIN kwargs \cup {"step"} |->
                        IF k = "step" THEN 0 ELSE kwargs[k]])
      [] func.name = "mutates_kwargs" ->
            \* kwargs.clear(); kwargs["result"] = 0; return success(**kwargs)
            success([k \in {"result"} |-> 0])

\* the mapping the callable received, as the callable leaves it
KwargsLeft(func, kwargs) ==
    IF func.name = "mutates_kwargs" THEN [k \in {"result"} |-> 0] ELSE kwargs

\* Step(func=<the named callable>, title=name, description="")
StepOf(name) ==
    [func |-> [name |-> name], title |-> name, description |-> ""]

Steps == {StepOf(n) : n \in FuncNames}

\* Step.__call__(self, *args, **kwargs): self.func(*args, **kwargs)
StepCall(step, kwargs) ==
    IF "self" \in DOMAIN kwargs
    THEN Raise("TypeError")
    ELSE Invoke(step.func, kwargs)

(***************************************************************************)
(* Spec (core.py 118-181).                                                 *)
(***************************************************************************)
NoSpec == [type |-> "NoSpec"]

NoState == [type |-> "unset"]

\* the sequences of at most n Steps
RECURSIVE SeqsUpTo(_)
SeqsUpTo(n) ==
    IF n = 0 THEN {<<>>}
    ELSE LET shorter == SeqsUpTo(n - 1)
         IN shorter \cup {Append(s, x) : s \in {t \in shorter : Len(t) = n - 1},
                                          x \in Steps}

\* what a caller may pass as steps=: a tuple of Steps, or a list of them
StepsArgs ==
    {[kind |-> "tuple", items |-> s] : s \in SeqsUpTo(MaxSteps)}
    \cup {[kind |-> "list", items |-> s] : s \in SeqsUpTo(1)}

steps_validator_any_sequence(steps) == TRUE

\* attr.validators.instance_of(tuple) on Spec.steps
steps_validator(steps) == steps.kind = "tuple"

\* Spec(steps=..., description=..., title=...)
SpecNew(steps, description, title) ==
    IF steps_validator(steps)
    THEN Return([steps |-> steps.items, description |-> description,
                 title |-> title])
    ELSE Raise("TypeError")

\* _obj_doc(obj)
obj_doc(doc) == IF IsNone(doc) THEN PyStr(<<>>) ELSE doc

head_n_tail_no_check(seq) ==
    IF Len(seq) = 0 THEN Return(<<StepOf("add"), <<>>>>)
    ELSE Return(<<seq[1], Tail(seq)>>)

head_n_tail_keeps_head(seq) ==
    IF Len(seq) = 0 THEN Raise("ValueError")
    ELSE Return(<<seq[1], seq>>)

\* _head_n_tail(seq)
head_n_tail(seq) ==
    IF Len(seq) = 0 THEN Raise("ValueError")
    ELSE IF Len(seq) = 1 THEN Return(<<seq[1], <<>>>>)
    ELSE Return(<<seq[1], Tail(seq)>>)

Result(step, st) == [step |-> step, state |-> st]

\* the f-string of the fault barrier
ExceptionMsg(e) == PyStr(<<"Exception ", "<class '", e, "'>", " occured.">>)

run_step_body_no_barrier(step, data) == StepCall(step, data)

\* Spec._run_step(self, step, **data), the body
run_step_body(step, data) ==
    LET o == StepCall(step, data)
    IN IF o.kind = "raise" /\ o.exc \in ExceptionClasses
       THEN failure(ExceptionMsg(o.exc))
       ELSE o

\* the parameters of _run_step that a keyword of **data collides with
RunStepParams == {"self", "step"}

\* the call self._run_step(step, **data) as run_all makes it
run_step(step, data) ==
    IF DOMAIN data \cap RunStepParams # {}
    THEN Raise("TypeError")
    ELSE run_step_body(step, data)

\* whether that call reaches the step's callable
Invoked(step, data) ==
    DOMAIN data \cap RunStepParams = {} /\ "self" \notin DOMAIN data

CallOf(pos, step, data) == [pos |-> pos, func |-> step.func, data |-> data]

ShouldSkipFailureOnly(st) == is_failure(st)

ShouldSkipSkippedOnly(st) == st.skipped

\* the test of run_all's loop: state.is_failure() or state.skipped
ShouldSkip(st) == is_failure(st) \/ st.skipped

NextInputIsInitData(st, init) == init

\* the data run_all's loop hands to the next step: **state.data
NextInput(st, init) == st.data

CallerDictAliased(passed, left) == left

\* the dict the caller unpacked with ** after the call: the callee got a
\* new dict, so what it did to its own mapping does not show
CallerDictAfter(passed, left) == passed

RecordedIsSkipCopy(step, skipping) ==
    IF skipping THEN skip(step, PyNone) ELSE step

\* the step run_all's loop puts in the Result
Recorded(step, skipping) == step

(***************************************************************************)
(* The life of one Spec object.                                            *)
(***************************************************************************)
Init ==
    /\ spec = NoSpec
    /\ ctor_arg = [kind |-> "none", items |-> <<>>]
    /\ pc = "new"
    /\ init_data = EmptyData
    /\ result = <<>>
    /\ state = NoState
    /\ rest = <<>>
    /\ raised = "none"
    /\ calls = <<>>
    /\ ctor_call = [fn |-> "none"]
    /\ ctor_out = Return(PyNone)

\* the constructor's outcome o becomes the object, or the error
Constructed(arg, o) ==
    /\ ctor_arg' = arg
    /\ IF o.kind = "return"
       THEN /\ spec' = o.value
            /\ pc' = "built"
            /\ raised' = raised
       ELSE /\ spec' = spec
            /\ pc' = "ctor_error"
            /\ raised' = o.exc
    /\ UNCHANGED <<init_data, result, state, rest, calls, ctor_call, ctor_out>>

\* Spec(steps=..., description="", title=...)
SpecDirect ==
    /\ pc = "new"
    /\ \E arg \in StepsArgs :
          Constructed(arg, SpecNew(arg, PyStr(<<>>), PyStr(<<"A title">>)))

\* spec(title)(obj): Spec(steps=obj.steps, title=title, description=_obj_doc(obj))
SpecDecorator ==
    /\ pc = "new"
    /\ \E arg \in StepsArgs, doc \in {PyNone, PyStr(<<"A scenario.">>)} :
          Constructed(arg, SpecNew(arg, obj_doc(doc), PyStr(<<"A title">>)))

\* run_all, lines 156-160: the split of steps and the first step
RunAllFirst ==
    /\ pc = "built"
    /\ \E d \in DataSet :
          LET ht == head_n_tail(spec.steps)
          IN /\ init_data' = d
             /\ IF ht.kind = "raise"
                THEN /\ pc' = "raised"
                     /\ raised' = ht.exc
                     /\ UNCHANGED <<result, state, rest, calls>>
                ELSE LET init == ht.value[1]
                         o == run_step(init, d)
                     IN /\ calls' = IF Invoked(init, d)
                                    THEN Append(calls, CallOf(1, init, d))
                                    ELSE calls
                        /\ IF o.kind = "raise"
                           THEN /\ pc' = "raised"
                                /\ raised' = o.exc
                                /\ UNCHANGED <<result, state, rest>>
                           ELSE /\ pc' = "running"
                                /\ state' = o.value
                                /\ result' = Append(result, Result(init, o.value))
                                /\ rest' = ht.value[2]
                                /\ raised' = raised
    /\ UNCHANGED <<spec, ctor_arg, ctor_call, ctor_out>>

\* run_all, lines 162-167: one iteration of the loop over rest
RunAllIter ==
    /\ pc = "running"
    /\ rest # <<>>
    /\ LET step == Head(rest)
           pos == Len(result) + 1
       IN IF ~IsState(state)
          THEN \* state.is_failure() on a value that is no State
               /\ pc' = "raised"
               /\ raised' = "AttributeError"
               /\ UNCHANGED <<result, state, rest, calls>>
          ELSE LET skipping == ShouldSkip(state)
                   data == NextInput(state, init_data)
                   o == IF skipping
                        THEN StepCall(skip(step, PyNone), EmptyData)
                        ELSE run_step(step, data)
               IN /\ calls' = IF ~skipping /\ Invoked(step, data)
                              THEN Append(calls, CallOf(pos, step, data))
                              ELSE calls
                  /\ IF o.kind = "raise"
                     THEN /\ pc' = "raised"
                          /\ raised' = o.exc
                          /\ UNCHANGED <<result, state, rest>>
                     ELSE /\ pc' = "running"
                          /\ state' = o.value
                          /\ result' = Append(
                                 IF ~skipping /\ Invoked(step, data)
                                 THEN [result EXCEPT ![pos - 1].state.data =
                                          CallerDictAfter(@,
                                              KwargsLeft(step.func, data))]
                                 ELSE result,
                                 Result(Recorded(step, skipping), o.value))
                          /\ rest' = Tail(rest)
                          /\ raised' = raised
    /\ UNCHANGED <<spec, ctor_arg, init_data, ctor_call, ctor_out>>

\* run_all, line 168: return result
RunAllReturn ==
    /\ pc = "running"
    /\ rest = <<>>
    /\ pc' = "returned"
    /\ UNCHANGED <<spec, ctor_arg, init_data, result, state, rest, raised,
                   calls, ctor_call, ctor_out>>

Next == SpecDirect \/ SpecDecorator \/ RunAllFirst \/ RunAllIter \/ RunAllReturn

Spec == Init /\ [][Next]_vars

(***************************************************************************)
(* The constructors on their own.                                          *)
(***************************************************************************)
\* what a caller may pass as msg: None, a str, or something else
MsgArgs == {PyNone, PyStr(<<"It broke.">>), PyStr(<<>>), PyInt(0)}

\* what a caller may pass as data
DataArgs == DataSet \cup {NotADict}

\* State(data=d, break_execution=b, skipped=s, msg=m)
CallState ==
    /\ \E d \in DataArgs, b \in BOOLEAN, s \in BOOLEAN, m \in MsgArgs :
          /\ ctor_call' = [fn |-> "State", data |-> d, break_execution |-> b,
                           skipped |-> s, msg |-> m]
          /\ ctor_out' = StateInit(d, b, s, m)
    /\ UNCHANGED runVars

\* success(**d)
CallSuccess ==
    /\ \E d \in DataSet :
          /\ ctor_call' = [fn |-> "success", data |-> d]
          /\ ctor_out' = success(d)
    /\ UNCHANGED runVars

\* failure(m)
CallFailure ==
    /\ \E m \in MsgArgs :
          /\ ctor_call' = [fn |-> "failure", msg |-> m]
          /\ ctor_out' = failure(m)
    /\ UNCHANGED runVars

\* skip(step, reason)(**kw)
CallSkip ==
    /\ \E n \in FuncNames, reason \in MsgArgs, kw \in DataSet :
          /\ ctor_call' = [fn |-> "skip", step |-> StepOf(n),
                           reason |-> reason, kwargs |-> kw]
          /\ ctor_out' = StepCall(skip(StepOf(n), reason), kw)
    /\ UNCHANGED runVars

CtorNext == CallState \/ CallSuccess \/ CallFailure \/ CallSkip

SpecCtor == Init /\ [][CtorNext]_vars

(***************************************************************************)
(* toolz.unpack (toolz.py 3-13).                                           *)
(***************************************************************************)
\* the most keys given to unpack
MaxKeys == 2

PyTuple(items) == [type |-> "tuple", items |-> items]

UnpackKeyNames == {"a", "b", "result"}

\* a dict in insertion order: a sequence of items with distinct keys
OrderedDicts ==
    {m \in UNION {[1..n -> [k : UnpackKeyNames, v : Vals]] :
                      n \in 0..Cardinality(UnpackKeyNames)} :
        \A i \in 1..Len(m) : \A j \in 1..Len(m) : i # j => m[i].k # m[j].k}

\* the keys a caller names: at most MaxKeys of them, no key twice
KeySeqs ==
    {ks \in UNION {[1..n -> UnpackKeyNames] : n \in 0..MaxKeys} :
        \A i \in 1..Len(ks) : \A j \in 1..Len(ks) : i # j => ks[i] # ks[j]}

HasKey(mapping, key) == \E i \in 1..Len(mapping) : mapping[i].k = key

\* mapping[key] where the key is present
Lookup(mapping, key) ==
    mapping[CHOOSE i \in 1..Len(mapping) : mapping[i].k = key].v

\* mapping[key]
GetItem(mapping, key) ==
    IF HasKey(mapping, key) THEN Return(PyInt(Lookup(mapping, key)))
    ELSE Raise("KeyError")

\* unpack(mapping, *keys): with more than one key the generator runs over
\* the mapping itself, `for key in mapping`
unpack(mapping, keys) ==
    IF Len(keys) > 1
    THEN Return(PyTuple([i \in 1..Len(mapping) |-> mapping[i].v]))
    ELSE IF Len(keys) = 0 THEN Raise("IndexError")
    ELSE GetItem(mapping, keys[1])

\* unpack(m, *ks)
CallUnpack ==
    /\ ctor_call.fn = "none"
    /\ \E m \in OrderedDicts, ks \in KeySeqs :
          /\ ctor_call' = [fn |-> "unpack", mapping |-> m, keys |-> ks]
          /\ ctor_out' = unpack(m, ks)
    /\ UNCHANGED runVars

SpecUnpack == Init /\ [][CallUnpack]_vars

(***************************************************************************)
(* The step decorator (core.py 22-51).                                     *)
(***************************************************************************)
\* the longest function name
MaxName == 4

\* a name or a title is the sequence of its characters
NameChars == {"a", "b", "B", "_"}

Names == UNION {[1..n -> NameChars] : n \in 1..MaxName}

\* str.upper() and str.lower() on one character
Upper(c) == CASE c = "a" -> "A" [] c = "b" -> "B" [] OTHER -> c

Lower(c) == CASE c = "A" -> "a" [] c = "B" -> "b" [] OTHER -> c

\* s.split(sep): the pieces between the separators, empty ones included
RECURSIVE split(_, _)
split(s, sep) ==
    IF \A i \in 1..Len(s) : s[i] # sep
    THEN <<s>>
    ELSE LET at == CHOOSE i \in 1..Len(s) :
                      s[i] = sep /\ \A j \in 1..(i - 1) : s[j] # sep
         IN <<SubSeq(s, 1, at - 1)>> \o split(SubSeq(s, at + 1, Len(s)), sep)

\* sep.join(pieces)
RECURSIVE join(_, _)
join(sep, pieces) ==
    IF Len(pieces) = 0 THEN <<>>
    ELSE IF Len(pieces) = 1 THEN pieces[1]
    ELSE pieces[1] \o <<sep>> \o join(sep, Tail(pieces))

capitalize_first_only(s) ==
    [i \in 1..Len(s) |-> IF i = 1 THEN Upper(s[i]) ELSE s[i]]

\* s.capitalize(): the first character upper-cased, the rest lower-cased
capitalize(s) ==
    [i \in 1..Len(s) |-> IF i = 1 THEN Upper(s[i]) ELSE Lower(s[i])]

\* _title_from_func_name(func_name)
title_from_func_name(func_name) ==
    capitalize(join(" ", split(func_name, "_"))) \o <<".">>

\* what a caller may give as a function's docstring
Docs == {PyNone, PyStr(<<"Adds.">>)}

Functions == {[kind |-> "function", name |-> n, doc |-> d] : n \in Names, d \in Docs}

\* step(f_or_title) given a function: the Step of the try block
step(f) ==
    [func |-> [name |-> f.name],
     title |-> PyStr(title_from_func_name(f.name)),
     description |-> obj_doc(f.doc)]

\* step(f_or_title) given a str, then the _factory it returns given func
step_factory(title, func) ==
    [func |-> [name |-> func.name],
     title |-> PyStr(title),
     description |-> obj_doc(func.doc)]

\* step(f)
CallStep ==
    /\ ctor_call.fn = "none"
    /\ \E f \in Functions :
          /\ ctor_call' = [fn |-> "step", arg |-> f]
          /\ ctor_out' = Return(step(f))
    /\ UNCHANGED runVars

\* step(title)(f)
CallStepTitle ==
    /\ ctor_call.fn = "none"
    /\ \E title \in Names, f \in Functions :
          /\ f.name = <<"a">>
          /\ ctor_call' = [fn |-> "step_factory", title |-> title, arg |-> f]
          /\ ctor_out' = Return(step_factory(title, f))
    /\ UNCHANGED runVars

TitleNext == CallStep \/ CallStepTitle

SpecTitle == Init /\ [][TitleNext]_vars

(***************************************************************************)
(* The properties.                                                         *)
(***************************************************************************)
IsSpec(v) == "steps" \in DOMAIN v

\* run_all has ended, by return or by an exception
Ended == pc \in {"returned", "raised"}

StepNames == {spec.steps[i].func.name : i \in 1..Len(spec.steps)}

\* the State at position i of the trace is a State and a failure
FailureAt(i) ==
    /\ i <= Len(result)
    /\ IsState(result[i].state)
    /\ result[i].state.break_execution
    /\ ~result[i].state.skipped
    /\ is_failure(result[i].state)

AllSuccess ==
    \A i \in 1..Len(result) :
        IsState(result[i].state) /\ is_success(result[i].state)

\* the steps applied one after the other to d, each to the data of the
\* State the one before returned
RECURSIVE Composed(_, _)
Composed(steps, d) ==
    IF steps = <<>> THEN d
    ELSE Composed(Tail(steps), Invoke(Head(steps).func, d).value.data)

\* C1: a run_all on N >= 1 steps that succeed, return failure or raise an
\* exception returns a list of exactly N Results, whatever the initial data.
C1_TraceLength ==
    (/\ Ended
     /\ Len(spec.steps) >= 1
     /\ StepNames \subseteq {"add", "result_is", "raises", "returns_step_key"})
    => (pc = "returned" /\ Len(result) = Len(spec.steps))

\* C2: in the trace, every Result after a Result whose State is a failure
\* holds a skipped State.
C2_ShortCircuit ==
    \A i \in 1..Len(result) : \A j \in 1..Len(result) :
        (i < j /\ IsState(result[i].state) /\ is_failure(result[i].state))
        => (IsState(result[j].state) /\ is_skipped(result[j].state))

C2_Witness ==
    /\ pc = "returned"
    /\ Len(result) = 3
    /\ FailureAt(1)
    /\ result[1].step.func.name = "result_is"

C4_NoEscape ==
    (/\ pc = "raised"
     /\ DOMAIN init_data \cap RunStepParams = {}
     /\ StepNames \cap {"aborts", "returns_step_key"} = {})
    => (spec.steps = <<>>)

\* C5: run_all on a Spec with no steps raises ValueError, invokes no step
\* callable and returns no trace.
C5_EmptyFails ==
    (IsSpec(spec) /\ spec.steps = <<>> /\ pc # "built")
    => (pc = "raised" /\ raised = "ValueError" /\ calls = <<>> /\ result = <<>>)

C5_Witness == IsSpec(spec) /\ spec.steps = <<>> /\ pc = "raised"

\* C6 as stated: every Spec object that exists holds at least one Step.
C6_NeverEmpty == IsSpec(spec) => Len(spec.steps) >= 1

\* C6, amended: every Spec object that exists holds the tuple it was
\* constructed with, which may be empty; the constructor raises only for a
\* steps value that is not a tuple, and an empty tuple is refused only by
\* run_all.
C6_TupleOnly ==
    /\ IsSpec(spec) => (ctor_arg.kind = "tuple" /\ spec.steps = ctor_arg.items)
    /\ ctor_arg.kind = "tuple" => IsSpec(spec)
    /\ ctor_arg.kind = "list"
          => (~IsSpec(spec) /\ pc = "ctor_error" /\ raised = "TypeError")
    /\ (IsSpec(spec) /\ spec.steps = <<>>) => pc \in {"built", "raised"}

C6_Witness == IsSpec(spec) /\ spec.steps = <<>> /\ pc = "built"

\* C7: for every State, exactly one of is_success(), is_failure(),
\* is_skipped() is true, for all four values of the two flags.
C7_ExactlyOne ==
    (ctor_out.kind = "return" /\ IsState(ctor_out.value))
    => LET s == ctor_out.value
       IN /\ is_success(s) \/ is_failure(s) \/ is_skipped(s)
          /\ ~(is_success(s) /\ is_failure(s))
          /\ ~(is_success(s) /\ is_skipped(s))
          /\ ~(is_failure(s) /\ is_skipped(s))

C7_Witness ==
    /\ ctor_call.fn = "State"
    /\ ctor_out.kind = "return"
    /\ ctor_out.value.break_execution
    /\ ctor_out.value.skipped

\* C8: every invocation of a step callable gets the initial data when it is
\* the first step's, and the data of the State recorded just before it
\* otherwise; the last State of an all-success trace holds the composition
\* of all steps applied to the initial data.
C8_DataForward ==
    /\ \A k \in 1..Len(calls) :
          IF calls[k].pos = 1
          THEN calls[k].data = init_data
          ELSE /\ calls[k].pos - 1 <= Len(result)
               /\ calls[k].data = result[calls[k].pos - 1].state.data
    /\ (pc = "returned" /\ AllSuccess)
          => result[Len(result)].state.data = Composed(spec.steps, init_data)

C8_Witness ==
    /\ pc = "returned"
    /\ AllSuccess
    /\ Len(calls) = 3
    /\ result[1].state.data # init_data
    /\ result[2].state.data # result[1].state.data
    /\ result[3].state.data # result[2].state.data

\* C9: the Result at position i holds the i-th step of spec.steps itself,
\* also when it was skipped, and a returned trace holds every step.
C9_StepsInOrder ==
    /\ \A i \in 1..Len(result) : result[i].step = spec.steps[i]
    /\ pc = "returned" => Len(result) = Len(spec.steps)

C9_Witness ==
    /\ pc = "returned"
    /\ Len(result) = 3
    /\ FailureAt(1)
    /\ is_skipped(result[3].state)
    /\ result[3].step.func.name = "add"

\* C10: success(d) is a State with both flags false, msg None and data d;
\* failure(m), m a str or None, is a State with break_execution true,
\* skipped false, msg m and empty data.
C10_Constructors ==
    /\ ctor_call.fn = "success"
          => ctor_out = Return([data |-> ctor_call.data,
                                break_execution |-> FALSE,
                                skipped |-> FALSE, msg |-> PyNone])
    /\ (ctor_call.fn = "failure" /\ ctor_call.msg.type \in {"str", "NoneType"})
          => ctor_out = Return([data |-> EmptyData,
                                break_execution |-> TRUE,
                                skipped |-> FALSE, msg |-> ctor_call.msg])

C10_Witness ==
    /\ ctor_call.fn = "failure"
    /\ ctor_call.msg = PyStr(<<"It broke.">>)
    /\ ctor_out.kind = "return"

\* C11: unpack(mapping, k1, ..., kn) with n >= 2 returns the tuple
\* (mapping[k1], ..., mapping[kn]), whatever else the mapping holds and in
\* whatever order; with one key it returns mapping[k1].
C11_UnpackByKeys ==
    (/\ ctor_call.fn = "unpack"
     /\ Len(ctor_call.keys) >= 1
     /\ \A i \in 1..Len(ctor_call.keys) :
           HasKey(ctor_call.mapping, ctor_call.keys[i]))
    => ctor_out =
          IF Len(ctor_call.keys) = 1
          THEN Return(PyInt(Lookup(ctor_call.mapping, ctor_call.keys[1])))
          ELSE Return(PyTuple([i \in 1..Len(ctor_call.keys) |->
                         Lookup(ctor_call.mapping, ctor_call.keys[i])]))

\* the State at position i stops the chain: it is a failure or is skipped
StopsAt(i) ==
    /\ IsState(result[i].state)
    /\ is_failure(result[i].state) \/ is_skipped(result[i].state)

\* C12: a step's callable is never invoked when the State recorded just
\* before it is a failure or is skipped, whoever produced that State; the
\* step gets the State of skip(step)() instead.
C12_NoCallAfterStop ==
    /\ \A k \in 1..Len(calls) :
          calls[k].pos >= 2 => ~StopsAt(calls[k].pos - 1)
    /\ \A i \in 2..Len(result) :
          StopsAt(i - 1)
          => result[i].state =
                StepCall(skip(spec.steps[i], PyNone), EmptyData).value

C12_Witness ==
    /\ pc = "returned"
    /\ Len(result) = 2
    /\ result[1].step.func.name = "returns_skipped"
    /\ is_skipped(result[2].state)
    /\ Len(calls) = 1

\* C13: step callables are invoked in declaration order and each at most
\* once: an invocation is of the step at the position right after the
\* States recorded so far, a later position than every earlier invocation.
C13_InOrderOnce ==
    [][calls' # calls
       => /\ Len(calls') = Len(calls) + 1
          /\ SubSeq(calls', 1, Len(calls)) = calls
          /\ LET c == calls'[Len(calls')]
             IN /\ c.pos = Len(result) + 1
                /\ c.pos <= Len(spec.steps)
                /\ c.func = spec.steps[c.pos].func
                /\ \A k \in 1..Len(calls) : calls[k].pos < c.pos]_vars

C13_Witness ==
    /\ pc = "returned"
    /\ Len(calls) = 3
    /\ calls[3].pos = 3
    /\ calls[1].func.name = "add"
    /\ calls[2].func.name = "result_is"
    /\ calls[3].func.name = "raises"

\* C14: the State recorded for a step skipped because of an earlier failure
\* or skip has skipped true, break_execution false, empty data and the msg
\* "Step skipped.".
C14_SkipState ==
    \A i \in 2..Len(result) :
        StopsAt(i - 1)
        => result[i].state = [data |-> EmptyData,
                              break_execution |-> FALSE,
                              skipped |-> TRUE,
                              msg |-> PyStr(<<"Step skipped.">>)]

C14_Witness ==
    /\ pc = "returned"
    /\ Len(result) = 2
    /\ result[1].step.func.name = "raises"
    /\ FailureAt(1)
    /\ result[2].state.skipped
    /\ result[2].state.msg = PyStr(<<"Step skipped.">>)

\* the State the Step of skip(step, reason) is said to return
SkippedWith(reason) ==
    /\ ctor_out.kind = "return"
    /\ IsState(ctor_out.value)
    /\ ctor_out.value.skipped
    /\ ctor_out.value.msg =
          IF IsNone(reason) THEN PyStr(<<"Step skipped.">>) ELSE reason

C17_ExceptionMsg ==
    \A k \in 1..Len(calls) :
        LET o == Invoke(calls[k].func, calls[k].data)
        IN (/\ o.kind = "raise"
            /\ o.exc \in ExceptionClasses
            /\ calls[k].pos <= Len(result))
           => result[calls[k].pos].state.msg =
                 PyStr(<<"Exception ", "<class '", o.exc, "'>", " occurred.">>)

\* the identifier with every underscore made a space: its tokens joined by
\* single spaces
Spaced(name) ==
    [i \in 1..Len(name) |-> IF name[i] = "_" THEN " " ELSE name[i]]

\* C18 as stated: the title step(f) infers is the identifier's tokens
\* joined by single spaces, the first letter capitalized and every other
\* character unchanged, and a period.
C18_TitleKeepsCase ==
    ctor_call.fn = "step"
    => ctor_out.value.title =
          PyStr([i \in 1..Len(ctor_call.arg.name) |->
                    IF i = 1 THEN Upper(Spaced(ctor_call.arg.name)[i])
                    ELSE Spaced(ctor_call.arg.name)[i]] \o <<".">>)

\* C18, amended: the title step(f) infers is the identifier's tokens joined
\* by single spaces, the first character upper-cased and every other
\* character lower-cased, and a period.
C18_TitleCapitalized ==
    ctor_call.fn = "step"
    => ctor_out.value.title =
          PyStr([i \in 1..Len(ctor_call.arg.name) |->
                    IF i = 1 THEN Upper(Spaced(ctor_call.arg.name)[i])
                    ELSE Lower(Spaced(ctor_call.arg.name)[i])] \o <<".">>)

C18_Witness ==
    /\ ctor_call.fn = "step"
    /\ ctor_call.arg.name = <<"a", "_", "b", "B">>
    /\ ctor_out.value.title = PyStr(<<"A", " ", "b", "b", ".">>)

\* C19: when the callables only return success(...) or failure(...) States
\* or raise, the trace is successes, then at most one failure, then skipped
\* States only.
C19_TraceShape ==
    (/\ IsSpec(spec)
     /\ StepNames \subseteq {"add", "result_is", "raises", "aborts",
                             "returns_step_key", "mutates_kwargs"})
    => /\ \A i \in 1..Len(result) : IsState(result[i].state)
       /\ \A i \in 2..Len(result) :
             (is_success(result[i].state) \/ is_failure(result[i].state))
             => is_success(result[i - 1].state)
       /\ \A i \in 2..Len(result) :
             ~is_success(result[i - 1].state) => is_skipped(result[i].state)
       /\ Cardinality({i \in 1..Len(result) : is_failure(result[i].state)}) <= 1

C19_Witness ==
    /\ pc = "returned"
    /\ Len(result) = 3
    /\ result[1].step.func.name = "mutates_kwargs"
    /\ is_success(result[1].state)
    /\ result[2].step.func.name = "result_is"
    /\ FailureAt(2)
    /\ is_skipped(result[3].state)

====
